---- MODULE Spec2Model ----
(***************************************************************************)
(* Site Verifier of dcmcshan/future-agent: the HTTP smoke-test harness     *)
(* comprehensive-test.js (and its sibling manual-test.js, printed in       *)
(* docs/SCRAPING_SYSTEM.md).                                               *)
(*                                                                         *)
(* Text is a sequence of symbols.  A symbol is a TLA+ string standing for  *)
(* one character ("<", ">", "h", "1", the double quote) or for a fixed     *)
(* run of characters none of which is <, > or the double quote             *)
(* ("class=", "stats-grid", "total_questions").                            *)
(***************************************************************************)
EXTENDS Integers, Sequences, FiniteSets, TLC

Quote == "\""

(***************************************************************************)
(* String primitives of the JavaScript runtime used by checkContent.       *)
(***************************************************************************)

\* Case folding of the RegExp 'i' flag, on the symbols that have an upper case.
Lower(c) ==
  CASE c = "H" -> "h"
    [] c = "TITLE" -> "title"
    [] c = "CLASS=" -> "class="
    [] c = "ID=" -> "id="
    [] c = "DIV" -> "div"
    [] c = "STATS-GRID" -> "stats-grid"
    [] OTHER -> c

\* lit occurs in s at position i (1-based); ci: compared case-insensitively.
MatchAt(s, i, lit, ci) ==
  /\ i >= 1
  /\ i + Len(lit) - 1 <= Len(s)
  /\ \A j \in 1..Len(lit) :
       IF ci THEN Lower(s[i + j - 1]) = Lower(lit[j]) ELSE s[i + j - 1] = lit[j]

\* No symbol of s[from..to] is c (the negated class [^c] repeated over the range).
NoneIn(s, from, to, c) == \A j \in from..to : s[j] # c

\* String.prototype.includes
Includes(s, v) == \E i \in 1..(Len(s) - Len(v) + 1) : MatchAt(s, i, v, FALSE)

(***************************************************************************)
(* The regular expressions of checkContent, matched the way RegExp does:   *)
(* [^x]* is any run of symbols other than x, the token is matched          *)
(* literally under the 'i' flag.                                           *)
(***************************************************************************)

\* new RegExp(source) throws a SyntaxError when the interpolated token leaves
\* a group open; "(" is the only pattern character of the alphabet.
RegExpThrows(value) == \E i \in 1..Len(value) : value[i] = "("

\* <title[^>]*> starts at a; the result is the position of its closing ">",
\* 0 when there is none.
TitleOpenEnd(html, a) ==
  IF /\ a + 1 <= Len(html)
     /\ html[a] = "<"
     /\ Lower(html[a + 1]) = "title"
  THEN LET ends == {b \in (a + 2)..Len(html) :
                      html[b] = ">" /\ NoneIn(html, a + 2, b - 1, ">")}
       IN IF ends = {} THEN 0 ELSE CHOOSE b \in ends : TRUE
  ELSE 0

\* ([^<]*)</title> from position b + 1: the position of the "<" of </title>,
\* 0 when the text after the opening tag is not closed by </title>.
TitleCloseStart(html, b) ==
  LET cs == {c \in (b + 1)..Len(html) :
               /\ NoneIn(html, b + 1, c - 1, "<")
               /\ MatchAt(html, c, <<"<", "/", "title", ">">>, TRUE)}
  IN IF cs = {} THEN 0 ELSE CHOOSE c \in cs : TRUE

\* titleRegex matches with its first symbol at a.
TitleMatchesAt(html, a) ==
  \E b \in {TitleOpenEnd(html, a)} : b # 0 /\ TitleCloseStart(html, b) # 0

\* html.match(titleRegex): the leftmost match; capture is match[1].
TitleMatch(html) ==
  LET Capture(b) == SubSeq(html, b + 1, TitleCloseStart(html, b) - 1)
      Leftmost(starts) ==
        IF starts = {}
        THEN [matched |-> FALSE, capture |-> <<>>]
        ELSE [matched |-> TRUE,
              capture |-> Capture(TitleOpenEnd(html,
                            CHOOSE x \in starts : \A y \in starts : x <= y))]
  IN Leftmost({a \in 1..Len(html) : TitleMatchesAt(html, a)})

\* TitleFound that compares the captured text without regard to case.
TitleFoundIgnoringCase(html, value) ==
  \E m \in {TitleMatch(html)} :
    /\ m.matched
    /\ \E i \in 1..(Len(m.capture) - Len(value) + 1) : MatchAt(m.capture, i, value, TRUE)

\* match && match[1].includes(check.value)
TitleFound(html, value) ==
  \E m \in {TitleMatch(html)} : m.matched /\ Includes(m.capture, value)

\* classRegex: <[^>]*class="[^"]*T[^"]*"
ClassRegexTest(html, value) ==
  \E a \in 1..Len(html) :
    /\ html[a] = "<"
    /\ \E b \in (a + 1)..Len(html) :
         /\ Lower(html[b]) = "class="
         /\ b + 1 <= Len(html)
         /\ html[b + 1] = Quote
         /\ NoneIn(html, a + 1, b - 1, ">")
         /\ \E c \in (b + 2)..(Len(html) + 1) :
              /\ MatchAt(html, c, value, TRUE)
              /\ NoneIn(html, b + 2, c - 1, Quote)
              /\ \E d \in (c + Len(value))..Len(html) :
                   /\ html[d] = Quote
                   /\ NoneIn(html, c + Len(value), d - 1, Quote)

\* idRegex: <[^>]*id="T"
IdRegexTest(html, value) ==
  \E a \in 1..Len(html) :
    /\ html[a] = "<"
    /\ \E b \in (a + 1)..Len(html) :
         /\ Lower(html[b]) = "id="
         /\ b + 1 <= Len(html)
         /\ html[b + 1] = Quote
         /\ NoneIn(html, a + 1, b - 1, ">")
         /\ MatchAt(html, b + 2, value, TRUE)
         /\ b + 2 + Len(value) <= Len(html)
         /\ html[b + 2 + Len(value)] = Quote

\* tagRegex: <T[^>]*>
TagRegexTest(html, value) ==
  \E a \in 1..Len(html) :
    /\ html[a] = "<"
    /\ MatchAt(html, a + 1, value, TRUE)
    /\ \E d \in (a + 1 + Len(value))..Len(html) :
         /\ html[d] = ">"
         /\ NoneIn(html, a + 1 + Len(value), d - 1, ">")

\* One of the three sub-tests of the element branch.
SubTest(kind, html, value) ==
  CASE kind = "class" -> ClassRegexTest(html, value)
    [] kind = "id" -> IdRegexTest(html, value)
    [] kind = "tag" -> TagRegexTest(html, value)

RECURSIVE OrInOrder(_, _, _, _)
\* a || b || c over the sub-tests of order from position i on: they are
\* applied from the left, and the first one that matches ends the evaluation.
OrInOrder(order, html, value, i) ==
  IF i > Len(order) THEN FALSE
  ELSE IF SubTest(order[i], html, value) THEN TRUE
  ELSE OrInOrder(order, html, value, i + 1)

\* ElementFound as a chain in which the first attribute the body carries
\* decides: the class test when the body has a class attribute, else the id
\* test when it has an id, else the tag test.
ElementFoundFirstApplicable(html, value) ==
  IF \E b \in 1..Len(html) : Lower(html[b]) = "class=" THEN ClassRegexTest(html, value)
  ELSE IF \E b \in 1..Len(html) : Lower(html[b]) = "id=" THEN IdRegexTest(html, value)
  ELSE TagRegexTest(html, value)

\* An element branch that leaves out the test of the id.
ElementFoundSkipsId(html, value) ==
  ClassRegexTest(html, value) \/ TagRegexTest(html, value)

\* The element branch: the three expressions are built first (a bad token
\* throws there), then tested with ||.
ElementFound(html, value) ==
  ClassRegexTest(html, value) \/ IdRegexTest(html, value) \/ TagRegexTest(html, value)

(***************************************************************************)
(* JSON.parse, as far as checkContent observes it: whether the text is     *)
(* valid JSON, the kind of the top-level value and its own property keys.  *)
(* ok = FALSE stands for the SyntaxError JSON.parse throws.                *)
(***************************************************************************)

NumberSyms == {"0", "1", "16337"}
LiteralSyms == {"null", "true", "false"}
Digits == <<"0", "1", "2", "3", "4", "5", "6", "7", "8", "9">>

JsonFail == [ok |-> FALSE, next |-> 0, kind |-> "none", keys |-> {}, len |-> 0]
JsonOk(next, kind, keys, len) ==
  [ok |-> TRUE, next |-> next, kind |-> kind, keys |-> keys, len |-> len]

RECURSIVE SkipWs(_, _)
\* The first position from i on that holds no white space.
SkipWs(s, i) ==
  IF i <= Len(s) /\ s[i] = " " THEN SkipWs(s, i + 1) ELSE i

RECURSIVE NumberEnd(_, _)
\* The position after the run of digits that starts at i.
NumberEnd(s, i) ==
  IF i <= Len(s) /\ s[i] \in NumberSyms THEN NumberEnd(s, i + 1) ELSE i

\* The position of the quote closing the string opened at i, 0 when unclosed.
StringEnd(s, i) ==
  LET js == {j \in (i + 1)..Len(s) : s[j] = Quote /\ NoneIn(s, i + 1, j - 1, Quote)}
  IN IF js = {} THEN 0 ELSE CHOOSE j \in js : TRUE

RECURSIVE ParseValue(_, _)
RECURSIVE ParseMembers(_, _, _)
RECURSIVE ParseElements(_, _, _)

\* members of an object: i is at the first symbol of a member.
ParseMembers(s, i, keys) ==
  LET After(all, n) ==
        IF n > Len(s) THEN JsonFail
        ELSE IF s[n] = "}" THEN JsonOk(n + 1, "object", all, 0)
        ELSE IF s[n] = "," THEN ParseMembers(s, SkipWs(s, n + 1), all)
        ELSE JsonFail
      Value(all, v) == IF ~v.ok THEN JsonFail ELSE After(all, SkipWs(s, v.next))
      Colon(all, colon) ==
        IF colon > Len(s) \/ s[colon] # ":" THEN JsonFail
        ELSE Value(all, ParseValue(s, SkipWs(s, colon + 1)))
      Key(e) ==
        IF e = 0 THEN JsonFail
        ELSE Colon(keys \cup {SubSeq(s, i + 1, e - 1)}, SkipWs(s, e + 1))
  IN IF i > Len(s) \/ s[i] # Quote THEN JsonFail ELSE Key(StringEnd(s, i))

\* elements of an array: i is at the first symbol of an element.
ParseElements(s, i, count) ==
  LET After(n) ==
        IF n > Len(s) THEN JsonFail
        ELSE IF s[n] = "]" THEN JsonOk(n + 1, "array", {}, count + 1)
        ELSE IF s[n] = "," THEN ParseElements(s, SkipWs(s, n + 1), count + 1)
        ELSE JsonFail
      Value(v) == IF ~v.ok THEN JsonFail ELSE After(SkipWs(s, v.next))
  IN Value(ParseValue(s, i))

\* one JSON value whose first symbol is at i.
ParseValue(s, i) ==
  IF i > Len(s) THEN JsonFail
  ELSE IF s[i] = "{"
    THEN LET Object(n) == IF n <= Len(s) /\ s[n] = "}"
                          THEN JsonOk(n + 1, "object", {}, 0)
                          ELSE ParseMembers(s, n, {})
         IN Object(SkipWs(s, i + 1))
  ELSE IF s[i] = "["
    THEN LET Array(n) == IF n <= Len(s) /\ s[n] = "]"
                         THEN JsonOk(n + 1, "array", {}, 0)
                         ELSE ParseElements(s, n, 0)
         IN Array(SkipWs(s, i + 1))
  ELSE IF s[i] = Quote
    THEN LET String(e) == IF e = 0 THEN JsonFail
                          ELSE JsonOk(e + 1, "string", {}, e - i - 1)
         IN String(StringEnd(s, i))
  ELSE IF s[i] \in NumberSyms
    THEN LET Number(e) == IF s[i] = "0" /\ e > i + 1 THEN JsonFail
                          ELSE JsonOk(e, "number", {}, 0)
         IN Number(NumberEnd(s, i))
  ELSE IF s[i] = "null" THEN JsonOk(i + 1, "null", {}, 0)
  ELSE IF s[i] \in LiteralSyms THEN JsonOk(i + 1, "boolean", {}, 0)
  ELSE JsonFail

\* JSON.parse(text): one value, white space around it, nothing else.
JSONparse(text) ==
  LET Whole(v) == IF v.ok /\ SkipWs(text, v.next) = Len(text) + 1 THEN v ELSE JsonFail
  IN Whole(ParseValue(text, SkipWs(text, 1)))

RECURSIVE ToDecimal(_)
\* The property key of array index i.
ToDecimal(i) ==
  IF i < 10 THEN <<Digits[i + 1]>>
  ELSE ToDecimal(i \div 10) \o <<Digits[(i % 10) + 1]>>

\* json.hasOwnProperty(key) on the parsed value: threw stands for the
\* TypeError of a call on null or on a property that is no function (an
\* object whose own key "hasOwnProperty" shadows the inherited method).
\* Arrays and strings own "length" and their indices; a string's indices
\* are counted in symbols.
HasOwnPropertyCall(json, key) ==
  CASE json.kind = "null" -> [threw |-> TRUE, result |-> FALSE]
    [] json.kind = "object" ->
         IF <<"hasOwnProperty">> \in json.keys
         THEN [threw |-> TRUE, result |-> FALSE]
         ELSE [threw |-> FALSE, result |-> key \in json.keys]
    [] json.kind \in {"array", "string"} ->
         [threw |-> FALSE,
          result |-> key = <<"length">>
                       \/ \E i \in 0..(json.len - 1) : key = ToDecimal(i)]
    [] OTHER -> [threw |-> FALSE, result |-> FALSE]

\* The json branch: try { JSON.parse; hasOwnProperty } catch { found = false }
JsonFound(html, value) ==
  \E json \in {JSONparse(html)} :
    /\ json.ok
    /\ \E r \in {HasOwnPropertyCall(json, value)} : ~r.threw /\ r.result

(***************************************************************************)
(* checkContent(html, checks).  A Check is [type, value]; the result is    *)
(* [threw, results]: threw when building a regular expression threw, and   *)
(* then nothing is returned.                                               *)
(***************************************************************************)

\* The body of the loop for one check: the value of found.
CheckFound(html, check) ==
  CASE check.type = "title" -> TitleFound(html, check.value)
    [] check.type = "content" -> Includes(html, check.value)
    [] check.type = "element" -> ElementFound(html, check.value)
    [] check.type = "json" -> JsonFound(html, check.value)
    [] OTHER -> FALSE

\* Whether the loop body throws on this check.
CheckThrows(check) == check.type = "element" /\ RegExpThrows(check.value)

RECURSIVE CheckLoopBadJsonThrows(_, _, _, _)
\* CheckLoop whose json branch has no try: what JSON.parse throws leaves
\* checkContent.
CheckLoopBadJsonThrows(html, checks, i, results) ==
  IF i > Len(checks) THEN [threw |-> FALSE, results |-> results]
  ELSE IF CheckThrows(checks[i]) \/ (checks[i].type = "json" /\ ~JSONparse(html).ok)
  THEN [threw |-> TRUE, results |-> <<>>]
  ELSE CheckLoopBadJsonThrows(html, checks, i + 1,
                              Append(results, [check |-> checks[i],
                                               found |-> CheckFound(html, checks[i])]))

RECURSIVE CheckLoopFoundOutside(_, _, _, _)
\* CheckLoop with found declared once before the loop: the title branch,
\* which only ever sets found to true, then keeps the value the Check before
\* it left.
CheckLoopFoundOutside(html, checks, i, results) ==
  IF i > Len(checks) THEN [threw |-> FALSE, results |-> results]
  ELSE IF CheckThrows(checks[i]) THEN [threw |-> TRUE, results |-> <<>>]
  ELSE CheckLoopFoundOutside(html, checks, i + 1,
         Append(results,
                [check |-> checks[i],
                 found |-> \/ CheckFound(html, checks[i])
                           \/ /\ checks[i].type = "title"
                              /\ results # <<>>
                              /\ results[Len(results)].found]))

RECURSIVE CheckLoop(_, _, _, _)
\* for (const check of checks) from index i on, results collected so far.
CheckLoop(html, checks, i, results) ==
  IF i > Len(checks) THEN [threw |-> FALSE, results |-> results]
  ELSE IF CheckThrows(checks[i]) THEN [threw |-> TRUE, results |-> <<>>]
  ELSE CheckLoop(html, checks, i + 1,
                 Append(results, [check |-> checks[i],
                                  found |-> CheckFound(html, checks[i])]))

checkContent(html, checks) == CheckLoop(html, checks, 1, <<>>)

(***************************************************************************)
(* The TestCase list.  The four declared TestCases, and three further      *)
(* ones a configuration can hold: a URL that does not parse, an https URL  *)
(* and an element token that is no valid pattern.                          *)
(***************************************************************************)

Check(type, value) == [type |-> type, value |-> value]
Url(href, parses, protocol) == [href |-> href, parses |-> parses, protocol |-> protocol]

RootUrl == Url("http://localhost:3000/", TRUE, "http:")

HomepageTest ==
  [name |-> "Homepage Complete Test",
   url |-> Url("http://localhost:3000/", TRUE, "http:"),
   checks |-> << Check("title", <<"Future Agent - ", "Cannabis Industry Knowledge">>),
                 Check("content", <<"16,337">>),
                 Check("content", <<"1,456">>),
                 Check("content", <<"Cannabis Industry Knowledge", " Agent">>),
                 Check("element", <<"h", "1">>),
                 Check("element", <<"stats-grid">>),
                 Check("element", <<"features">>),
                 Check("element", <<"cta-section">>) >>]

F8Test ==
  [name |-> "F8 Comparison Complete Test",
   url |-> Url("http://localhost:3000/f8-comparison.html", TRUE, "http:"),
   checks |-> << Check("title", <<"F8 vs Future4200 Comparison">>),
                 Check("content", <<"Compare F8 LangChain responses">>),
                 Check("element", <<"h", "1">>),
                 Check("element", <<"stats-grid">>),
                 Check("element", <<"filters">>),
                 Check("element", <<"comparisonResults">>),
                 Check("element", <<"search-box">>) >>]

DataTest ==
  [name |-> "Data Loading Test",
   url |-> Url("http://localhost:3000/data/f8_responses_demo.json", TRUE, "http:"),
   checks |-> << Check("json", <<"total_questions">>),
                 Check("json", <<"results">>) >>]

StatsTest ==
  [name |-> "Statistics Data Test",
   url |-> Url("http://localhost:3000/data/f8_processing_stats.json", TRUE, "http:"),
   checks |-> << Check("json", <<"total_questions">>),
                 Check("json", <<"successful">>) >>]

DeclaredTests == <<HomepageTest, F8Test, DataTest, StatsTest>>

BadUrlTest ==
  [name |-> "Unparsable URL", url |-> Url("localhost:3000:x", FALSE, ""),
   checks |-> << Check("content", <<"16,337">>) >>]

HttpsTest ==
  [name |-> "HTTPS URL", url |-> Url("https://localhost:3000/", TRUE, "https:"),
   checks |-> << Check("element", <<"h", "1">>) >>]

BadTokenTest ==
  [name |-> "Token that is no pattern",
   url |-> Url("http://localhost:3000/", TRUE, "http:"),
   checks |-> << Check("content", <<"16,337">>), Check("element", <<"(">>) >>]

TestPool == <<HomepageTest, BadUrlTest, DataTest, BadTokenTest, F8Test, HttpsTest, StatsTest>>

\* The longest configured list that is not the declared one.
MaxTests == 3

RECURSIVE Pick(_, _)
\* The TestCases of TestPool at the positions of set, in the pool's order.
Pick(set, i) ==
  IF i > Len(TestPool) THEN <<>>
  ELSE IF i \in set THEN <<TestPool[i]>> \o Pick(set, i + 1)
  ELSE Pick(set, i + 1)

TestLists ==
  {DeclaredTests} \cup
  {Pick(set, 1) : set \in {x \in SUBSET (1..Len(TestPool)) :
                             Cardinality(x) >= 1 /\ Cardinality(x) <= MaxTests}}

(***************************************************************************)
(* The bodies a server answers with.                                       *)
(***************************************************************************)

HomeBody ==
  << "<", "TITLE", ">", "Future Agent - ", "Cannabis Industry Knowledge", "<", "/", "title", ">",
     "<", "h", "1", ">", "16,337", " ", "1,456", "Cannabis Industry Knowledge", " Agent",
     "<", "div", " ", "class=", Quote, "stats-grid", " ", "features", Quote, " ",
     "id=", Quote, "cta-section", Quote, ">" >>

\* The homepage without its statistics.
HomeBodyPartial ==
  << "<", "title", ">", "Future Agent - ", "Cannabis Industry Knowledge", "<", "/", "title", ">",
     "<", "h", "1", ">", "Cannabis Industry Knowledge", " Agent",
     "<", "div", " ", "class=", Quote, "features", Quote, ">" >>

F8Body ==
  << "<", "title", ">", "F8 vs Future4200 Comparison", "<", "/", "title", ">",
     "<", "h", "1", ">", "Compare F8 LangChain responses", "16,337",
     "<", "div", " ", "class=", Quote, "stats-grid", " ", "filters", " ", "search-box", Quote,
     " ", "id=", Quote, "comparisonResults", Quote, ">" >>

DataBody ==
  << "{", Quote, "total_questions", Quote, ":", " ", "16337", ",", " ",
     Quote, "results", Quote, ":", " ", "[", "]", ",", " ",
     Quote, "successful", Quote, ":", " ", "1", "}" >>

DataBodyPartial == << "{", Quote, "results", Quote, ":", " ", "[", "]", "}" >>

NotJsonBody == << "not json" >>

RunBodies == {HomeBody, HomeBodyPartial, F8Body, DataBody, DataBodyPartial, NotJsonBody}

\* The status codes a server answers with.
Statuses == {200, 404}

(***************************************************************************)
(* Number arithmetic of the success rate.  passed / total and the product  *)
(* with 100 are IEEE 754 binary64 operations: each result is the exact     *)
(* value rounded to a significand of 53 bits, ties to even.  A positive    *)
(* Number is [zero |-> FALSE, bits, exp]: the bits of its significand,     *)
(* the first one 1 and of weight 2^exp.                                    *)
(***************************************************************************)

\* Width of the significand of a Number.
MantissaBits == 53

\* Width of the pieces a significand is multiplied in.
LimbBits == 20

NumberZero == [zero |-> TRUE, bits |-> <<>>, exp |-> 0]

RECURSIVE PowMod(_, _)
\* 2^k modulo t.
PowMod(k, t) ==
  IF k = 0 THEN 1 % t
  ELSE IF k % 2 = 0 THEN (PowMod(k \div 2, t) * PowMod(k \div 2, t)) % t
  ELSE (2 * PowMod(k - 1, t)) % t

RECURSIVE BitsToInt(_)
\* The natural number with these binary digits.
BitsToInt(bits) ==
  IF Len(bits) = 0 THEN 0
  ELSE IF Len(bits) = 1 THEN bits[1]
  ELSE LET h == Len(bits) \div 2
       IN BitsToInt(SubSeq(bits, 1, h)) * 2^(Len(bits) - h)
            + BitsToInt(SubSeq(bits, h + 1, Len(bits)))

\* The width binary digits of n < 2^width.
IntToBits(n, width) == [i \in 1..width |-> (n \div 2^(width - i)) % 2]

\* bits + 1; one bit longer when the carry runs out of the top.
Increment(bits) ==
  LET zeros == {j \in 1..Len(bits) : bits[j] = 0}
  IN IF zeros = {} THEN <<1>> \o [i \in 1..Len(bits) |-> 0]
     ELSE LET j == CHOOSE x \in zeros : \A y \in zeros : y <= x
          IN [i \in 1..Len(bits) |-> IF i < j THEN bits[i] ELSE IF i = j THEN 1 ELSE 0]

\* bits (first bit 1, of weight 2^exp; sticky: a 1 follows them) rounded to
\* MantissaBits bits, to nearest, ties to even.
RoundBits(bits, exp, sticky) ==
  LET keep == SubSeq(bits, 1, MantissaBits)
      guard == bits[MantissaBits + 1]
      below == sticky \/ \E i \in (MantissaBits + 2)..Len(bits) : bits[i] = 1
      up == guard = 1 /\ (below \/ keep[MantissaBits] = 1)
      inc == Increment(keep)
  IN IF ~up THEN [zero |-> FALSE, bits |-> keep, exp |-> exp]
     ELSE IF Len(inc) > MantissaBits
       THEN [zero |-> FALSE, bits |-> SubSeq(inc, 1, MantissaBits), exp |-> exp + 1]
     ELSE [zero |-> FALSE, bits |-> inc, exp |-> exp]

RECURSIVE Normalize(_, _, _)
\* p / t = (r / t) * 2^e with t <= r < 2t: <<r, e>>.
Normalize(r, t, e) == IF r >= t THEN <<r, e>> ELSE Normalize(2 * r, t, e - 1)

\* The k-th binary digit of r / t after the point, for t <= r < 2t.
QuotientBit(r, t, k) == (2 * ((r * PowMod(k - 1, t)) % t)) \div t

\* The Number p / t, for integers 0 <= p <= t, t > 0.
Divide(p, t) ==
  IF p = 0 THEN NumberZero
  ELSE LET n == Normalize(p, t, 0)
           bits == <<1>> \o [k \in 1..MantissaBits |-> QuotientBit(n[1], t, k)]
       IN RoundBits(bits, n[2], (n[1] * PowMod(MantissaBits, t)) % t # 0)

\* The Number a * 100: the significand is multiplied in three pieces, from
\* the least significant one, each handing its carry to the next.
Times100(a) ==
  IF a.zero THEN NumberZero
  ELSE LET hiLen == MantissaBits - 2 * LimbBits
           lo == BitsToInt(SubSeq(a.bits, hiLen + LimbBits + 1, MantissaBits)) * 100
           mid == BitsToInt(SubSeq(a.bits, hiLen + 1, hiLen + LimbBits)) * 100
                    + lo \div 2^LimbBits
           hi == BitsToInt(SubSeq(a.bits, 1, hiLen)) * 100 + mid \div 2^LimbBits
           w == CHOOSE x \in 1..(hiLen + 7) : 2^(x - 1) <= hi /\ hi < 2^x
           product == IntToBits(hi, w) \o IntToBits(mid % 2^LimbBits, LimbBits)
                        \o IntToBits(lo % 2^LimbBits, LimbBits)
       IN RoundBits(product, a.exp + (Len(product) - MantissaBits), FALSE)

\* Math.round(y) for a Number 0 <= y < 2^(MantissaBits - 1): the nearest
\* integer, a fraction of one half rounds up.
MathRound(y) ==
  IF y.zero \/ y.exp < -1 THEN 0
  ELSE IF y.exp = -1 THEN 1
  ELSE BitsToInt(SubSeq(y.bits, 1, y.exp + 1)) + y.bits[y.exp + 2]

\* Math.round((passed / total) * 100)
SuccessRate(p, t) == MathRound(Times100(Divide(p, t)))

(***************************************************************************)
(* The run.  Request 0 is the preflight probe, request k the request of    *)
(* the k-th TestCase.  The handlers of the event loop (response end,       *)
(* request error, socket timeout) run only while the script is suspended   *)
(* at an await or has finished.                                            *)
(***************************************************************************)

VARIABLES
  tests,      \* the TestCase list
  pc,         \* position of the script
  idx,        \* runAllTests: index of the TestCase of the current iteration
  passed,     \* runAllTests: let passed
  total,      \* runAllTests: let total
  result,     \* what runTest returned to the loop
  promise,    \* request id -> state of the promise makeRequest returned
  inflight,   \* requests issued whose socket is still open
  issued,     \* the requests handed to http.get, in order
  settledBy,  \* what settled the promise being awaited
  status,     \* runTest: status of the fetched response
  data,       \* runTest: body of the fetched response
  evaluated,  \* runTest: checkContent was called
  results,    \* runTest: what checkContent returned
  verdicts,   \* the verdict printed for each TestCase run so far
  out,        \* the console lines that frame the run
  report,     \* the aggregate report printed by runAllTests
  exitCode,   \* the status the process exits with
  manual,     \* manual-test.js: what its runTest made of the same response
  cwd,        \* run-tests.js: process.cwd()
  portTaken,  \* run-tests.js: another process listens on port 3000
  server,     \* run-tests.js: the python http.server process it spawns
  serverExit, \* run-tests.js: how that process ended
  timer,      \* run-tests.js: the setTimeout of 2000 ms
  handler,    \* run-tests.js: the SIGINT handler is registered
  probe       \* run-tests.js: what the curl of the root path gave

vars == <<tests, pc, idx, passed, total, result, promise, inflight, issued,
          settledBy, status, data, evaluated, results, verdicts, out, report,
          exitCode, manual, cwd, portTaken, server, serverExit, timer, handler, probe>>

\* The state of run-tests.js apart from its position, output and exit status.
launcher == <<cwd, portTaken, server, serverExit, timer, handler, probe>>

\* manual-test.js has not handled the response.
NoManual == [state |-> "none", results |-> <<>>, verdict |-> "none"]

\* The server process ended with exit status n, or was ended by a signal.
Exited(n) == [status |-> n, signal |-> "none"]
Killed(sig) == [status |-> 0 - 1, signal |-> sig]
NotExited == [status |-> 0 - 1, signal |-> "none"]

\* run-tests.js has not been started.
LauncherIdle ==
  /\ cwd = "/repo"
  /\ portTaken = FALSE
  /\ server = "none"
  /\ serverExit = NotExited
  /\ timer = "none"
  /\ handler = FALSE
  /\ probe = "none"

NoReport == [printed |-> FALSE, passed |-> 0, total |-> 0, rate |-> 0, banner |-> "none"]

Line(text, n) == [text |-> text, n |-> n]

Init ==
  /\ tests \in TestLists
  /\ pc = "start"
  /\ idx = 0
  /\ passed = 0
  /\ total = 0
  /\ result = FALSE
  /\ promise = <<>>
  /\ inflight = {}
  /\ issued = <<>>
  /\ settledBy = "none"
  /\ status = 0
  /\ data = <<>>
  /\ evaluated = FALSE
  /\ results = <<>>
  /\ verdicts = <<>>
  /\ out = <<>>
  /\ report = NoReport
  /\ exitCode = 0
  /\ manual = NoManual
  /\ LauncherIdle

\* The script is suspended at an await, or over: the event loop runs handlers.
Idle == pc \in {"preflight", "await", "done", "skipped", "aborted"}

\* The request whose promise the script awaits.
Awaited == IF pc = "preflight" THEN 0 ELSE idx

\* The executor of makeRequest throws (new URL on a text that is no URL,
\* http.get on a protocol other than http:), which rejects the promise.
makeRequestThrows(url) == ~url.parses \/ url.protocol # "http:"

\* promise with the state of request r set.
Settle(r, state) ==
  IF r \in DOMAIN promise THEN [promise EXCEPT ![r] = state]
  ELSE [x \in DOMAIN promise \cup {r} |-> IF x = r THEN state ELSE promise[x]]

\* Main of a script that calls runAllTests at once, without the probe.
MainStartsRun ==
  /\ pc = "start"
  /\ out' = Append(out, Line("Starting comprehensive tests", 0))
  /\ passed' = 0
  /\ total' = Len(tests)
  /\ idx' = 1
  /\ pc' = "loop"
  /\ UNCHANGED <<launcher, manual, exitCode,
                 tests, result, promise, inflight, issued, settledBy, status, data,
                 evaluated, results, verdicts, report>>

\* Top level of the script: the probe of the root path is issued.
Main ==
  /\ pc = "start"
  /\ out' = Append(out, Line("Checking if development server is running", 0))
  /\ promise' = Settle(0, "pending")
  /\ inflight' = inflight \cup {0}
  /\ issued' = Append(issued, 0)
  /\ pc' = "preflight"
  /\ UNCHANGED <<launcher, manual, exitCode,
                 tests, idx, passed, total, result, settledBy, status, data,
                 evaluated, results, verdicts, report>>

\* The continuation of the promise of request r once it is settled.
Resumed(r) == IF r = 0 THEN "preflightSettled" ELSE "settled"

\* ResponseEnd whose resolve takes effect on a promise that is settled already.
ResponseEndLate(r, st, body) ==
  /\ Idle
  /\ r \in inflight
  /\ inflight' = inflight \ {r}
  /\ promise' = Settle(r, "fulfilled")
  /\ settledBy' = "end"
  /\ status' = st
  /\ data' = body
  /\ pc' = IF promise[r] = "pending" \/ pc = "await" THEN Resumed(r) ELSE pc
  /\ UNCHANGED <<launcher, manual, exitCode,
                 tests, idx, passed, total, result, issued, evaluated, results,
                 verdicts, out, report>>

\* res.on('end'): resolve({status, data, headers}).
ResponseEnd(r, st, body) ==
  /\ Idle
  /\ r \in inflight
  /\ inflight' = inflight \ {r}
  /\ IF promise[r] = "pending"
     THEN /\ promise' = Settle(r, "fulfilled")
          /\ settledBy' = "end"
          /\ status' = st
          /\ data' = body
          /\ pc' = Resumed(r)
     ELSE UNCHANGED <<promise, settledBy, status, data, pc>>
  /\ UNCHANGED <<launcher, manual, exitCode,
                 tests, idx, passed, total, result, issued, evaluated, results,
                 verdicts, out, report>>

\* req.on('error', reject): the connection failed and the socket is gone.
RequestError(r) ==
  /\ Idle
  /\ r \in inflight
  /\ inflight' = inflight \ {r}
  /\ IF promise[r] = "pending"
     THEN /\ promise' = Settle(r, "rejected")
          /\ settledBy' = "error"
          /\ pc' = Resumed(r)
     ELSE UNCHANGED <<promise, settledBy, pc>>
  /\ UNCHANGED <<launcher, manual, exitCode,
                 tests, idx, passed, total, result, issued, status, data,
                 evaluated, results, verdicts, out, report>>

\* RequestTimeout whose callback resolves with an empty answer.
RequestTimeoutResolves(r) ==
  /\ Idle
  /\ r \in inflight
  /\ promise[r] = "pending"
  /\ promise' = Settle(r, "fulfilled")
  /\ settledBy' = "timeout"
  /\ status' = 200
  /\ data' = <<>>
  /\ pc' = Resumed(r)
  /\ UNCHANGED <<launcher, manual, exitCode,
                 tests, idx, passed, total, result, inflight, issued,
                 evaluated, results, verdicts, out, report>>

\* req.setTimeout(10000, () => reject(new Error('Request timeout'))): the
\* callback rejects and nothing else; the request is not destroyed.
RequestTimeout(r) ==
  /\ Idle
  /\ r \in inflight
  /\ promise[r] = "pending"
  /\ promise' = Settle(r, "rejected")
  /\ settledBy' = "timeout"
  /\ pc' = Resumed(r)
  /\ UNCHANGED <<launcher, manual, exitCode,
                 tests, idx, passed, total, result, inflight, issued, status, data,
                 evaluated, results, verdicts, out, report>>

\* PreflightThen of a then-callback that prints its line and does not call
\* runAllTests.
PreflightThenNoRun ==
  /\ pc = "preflightSettled"
  /\ promise[0] = "fulfilled"
  /\ out' = Append(out, Line("Server is running", 0))
  /\ pc' = "done"
  /\ UNCHANGED <<launcher, manual, exitCode,
                 tests, idx, passed, total, result, promise, inflight, issued,
                 settledBy, status, data, evaluated, results, verdicts, report>>

\* PreflightThen of a then-callback that takes only status 200 for a running
\* server.
PreflightThenRequires200 ==
  /\ pc = "preflightSettled"
  /\ promise[0] = "fulfilled"
  /\ IF status = 200
     THEN /\ out' = out \o << Line("Server is running", 0),
                              Line("Starting comprehensive tests", 0) >>
          /\ passed' = 0
          /\ total' = Len(tests)
          /\ idx' = 1
          /\ pc' = "loop"
     ELSE /\ out' = Append(out, Line("Server is not running", 0))
          /\ pc' = "skipped"
          /\ UNCHANGED <<passed, total, idx>>
  /\ UNCHANGED <<launcher, manual, exitCode,
                 tests, result, promise, inflight, issued, settledBy, status, data,
                 evaluated, results, verdicts, report>>

\* .then(() => { ...; runAllTests(); }): the probe's promise was fulfilled.
\* runAllTests runs up to the head of its loop.
PreflightThen ==
  /\ pc = "preflightSettled"
  /\ promise[0] = "fulfilled"
  /\ out' = out \o << Line("Server is running", 0), Line("Starting comprehensive tests", 0) >>
  /\ passed' = 0
  /\ total' = Len(tests)
  /\ idx' = 1
  /\ pc' = "loop"
  /\ UNCHANGED <<launcher, manual, exitCode,
                 tests, result, promise, inflight, issued, settledBy, status, data,
                 evaluated, results, verdicts, report>>

\* PreflightCatch that prints the instructions and starts the run all the same.
PreflightCatchRuns ==
  /\ pc = "preflightSettled"
  /\ promise[0] = "rejected"
  /\ out' = Append(out, Line("Server is not running", 0))
  /\ passed' = 0
  /\ total' = Len(tests)
  /\ idx' = 1
  /\ pc' = "loop"
  /\ UNCHANGED <<launcher, manual, exitCode,
                 tests, result, promise, inflight, issued, settledBy, status, data,
                 evaluated, results, verdicts, report>>

\* .catch(() => { ... }): the probe's promise was rejected.
PreflightCatch ==
  /\ pc = "preflightSettled"
  /\ promise[0] = "rejected"
  /\ out' = Append(out, Line("Server is not running", 0))
  /\ pc' = "skipped"
  /\ UNCHANGED <<launcher, manual, exitCode,
                 tests, idx, passed, total, result, promise, inflight, issued,
                 settledBy, status, data, evaluated, results, verdicts, report>>

\* RunTestBegin of a loop that calls runTest without await: the next TestCase
\* starts while the request of this one is pending.
RunTestBeginNoAwait ==
  /\ pc = "loop"
  /\ idx <= total
  /\ out' = Append(out, Line("Testing", idx))
  /\ promise' = Settle(idx, "pending")
  /\ inflight' = inflight \cup {idx}
  /\ issued' = Append(issued, idx)
  /\ idx' = idx + 1
  /\ UNCHANGED <<launcher, manual, exitCode,
                 tests, pc, passed, total, result, settledBy, status, data, evaluated,
                 results, verdicts, report>>

\* runTest(test) up to its await: the two header lines, then makeRequest.
RunTestBegin ==
  /\ pc = "loop"
  /\ idx <= total
  /\ out' = Append(out, Line("Testing", idx))
  /\ status' = 0
  /\ data' = <<>>
  /\ evaluated' = FALSE
  /\ results' = <<>>
  /\ IF makeRequestThrows(tests[idx].url)
     THEN /\ promise' = Settle(idx, "rejected")
          /\ settledBy' = "throw"
          /\ pc' = "settled"
          /\ UNCHANGED <<inflight, issued>>
     ELSE /\ promise' = Settle(idx, "pending")
          /\ settledBy' = "none"
          /\ inflight' = inflight \cup {idx}
          /\ issued' = Append(issued, idx)
          /\ pc' = "await"
  /\ UNCHANGED <<launcher, manual, exitCode,
                 tests, idx, passed, total, result, verdicts, report>>

Failed(wasEvaluated) ==
  [escaped |-> FALSE, result |-> FALSE, verdict |-> "failed",
   evaluated |-> wasEvaluated, results |-> <<>>]

\* allPassed: every result of checkContent is found.
AllPassed(rs) == \A i \in 1..Len(rs) : rs[i].found

\* runTest after checkContent returned r: the results are logged, then
\* return true when all are found, else the partial pass and return false.
Checked(r) ==
  IF r.threw
  THEN [threw |-> TRUE, out |-> Failed(TRUE)]
  ELSE [threw |-> FALSE,
        out |-> [escaped |-> FALSE, result |-> AllPassed(r.results),
                 verdict |-> IF AllPassed(r.results) THEN "passed" ELSE "partial pass",
                 evaluated |-> TRUE, results |-> r.results]]

\* TryBlock with a partial pass returned as true.
TryBlockPartialTrue(test, settled, st, body) ==
  LET CheckedTrue(r) ==
        IF r.threw
        THEN [threw |-> TRUE, out |-> Failed(TRUE)]
        ELSE [threw |-> FALSE,
              out |-> [escaped |-> FALSE, result |-> TRUE,
                       verdict |-> IF AllPassed(r.results)
                                   THEN "passed" ELSE "partial pass",
                       evaluated |-> TRUE, results |-> r.results]]
  IN IF settled = "rejected"
     THEN [threw |-> TRUE, out |-> Failed(FALSE)]
     ELSE IF st # 200
     THEN [threw |-> FALSE, out |-> Failed(FALSE)]
     ELSE CheckedTrue(checkContent(body, test.checks))

\* TryBlock without the test of the status.
TryBlockAnyStatus(test, settled, st, body) ==
  IF settled = "rejected"
  THEN [threw |-> TRUE, out |-> Failed(FALSE)]
  ELSE Checked(checkContent(body, test.checks))

\* The try block of runTest from the await on.  threw: the block ended with
\* an exception (the rejection of the awaited promise, or what checkContent
\* threw); otherwise out is what runTest returns.
TryBlock(test, settled, st, body) ==
  IF settled = "rejected"
  THEN [threw |-> TRUE, out |-> Failed(FALSE)]
  ELSE IF st # 200
  THEN [threw |-> FALSE, out |-> Failed(FALSE)]
  ELSE Checked(checkContent(body, test.checks))

\* catch (error): the error is logged and runTest returns false.
Catch(t) == IF t.threw THEN Failed(t.out.evaluated) ELSE t.out

\* RunTestOutcome without the catch clause: what the try block throws leaves
\* runTest.
RunTestOutcomeNoCatch(test, settled, st, body) ==
  LET NoCatch(t) == IF t.threw THEN [t.out EXCEPT !.escaped = TRUE] ELSE t.out
  IN NoCatch(TryBlock(test, settled, st, body))

\* What runTest does after its await: try { ... } catch (error) { return false }.
\* escaped: an exception left runTest.
RunTestOutcome(test, settled, st, body) == Catch(TryBlock(test, settled, st, body))

\* runTest(test) from its await to its return.  An exception that left runTest
\* would reject the promise runAllTests awaits without a handler, and end the
\* loop.
RunTestResume ==
  /\ pc = "settled"
  /\ \E o \in {RunTestOutcome(tests[idx], promise[idx], status, data)} :
       IF o.escaped
       THEN /\ pc' = "aborted"
            /\ exitCode' = 1
            /\ UNCHANGED <<result, evaluated, results, verdicts, out>>
       ELSE /\ exitCode' = exitCode
            /\ result' = o.result
            /\ evaluated' = o.evaluated
            /\ results' = o.results
            /\ verdicts' = Append(verdicts, o.verdict)
            /\ out' = Append(out, Line(o.verdict, idx))
            /\ pc' = "returned"
  /\ UNCHANGED <<launcher, manual,
                 tests, idx, passed, total, promise, inflight, issued, settledBy,
                 status, data, report>>

\* The count of a loop that does passed++ without the test of result.
CountedWhateverResult(p, r) == p + 1

\* The count runAllTests keeps after one runTest returned.
Counted(p, r) == IF r THEN p + 1 ELSE p

\* RunAllTestsNext that runs a TestCase again when it did not pass.
RunAllTestsNextRetry ==
  /\ pc = "returned"
  /\ passed' = Counted(passed, result)
  /\ idx' = IF result THEN idx + 1 ELSE idx
  /\ pc' = "loop"
  /\ UNCHANGED <<launcher, manual, exitCode,
                 tests, total, result, promise, inflight, issued, settledBy, status,
                 data, evaluated, results, verdicts, out, report>>

\* RunAllTestsNext of a loop that empties the checks of the TestCase it has
\* run.
RunAllTestsNextConsumes ==
  /\ pc = "returned"
  /\ passed' = Counted(passed, result)
  /\ tests' = [tests EXCEPT ![idx].checks = <<>>]
  /\ idx' = idx + 1
  /\ pc' = "loop"
  /\ UNCHANGED <<launcher, manual, exitCode,
                 total, result, promise, inflight, issued, settledBy,
                 status, data, evaluated, results, verdicts, out, report>>

\* const result = await runTest(test); if (result) passed++; next iteration.
RunAllTestsNext ==
  /\ pc = "returned"
  /\ passed' = Counted(passed, result)
  /\ idx' = idx + 1
  /\ pc' = "loop"
  /\ UNCHANGED <<launcher, manual, exitCode,
                 tests, total, result, promise, inflight, issued, settledBy, status,
                 data, evaluated, results, verdicts, out, report>>

\* Banner that is content with one TestCase passed.
BannerAnyPassed(p, t) ==
  IF p > 0 THEN "All comprehensive tests passed" ELSE "Some tests failed"

\* The closing banner of runAllTests.
Banner(p, t) == IF p = t THEN "All comprehensive tests passed" ELSE "Some tests failed"

\* Report of a runAllTests that ends with the exit status of a test runner:
\* 1 unless every TestCase passed.
ReportSetsExitCode ==
  /\ pc = "loop"
  /\ idx > total
  /\ report' = [printed |-> TRUE, passed |-> passed, total |-> total,
                rate |-> SuccessRate(passed, total), banner |-> Banner(passed, total)]
  /\ out' = Append(out, Line("Comprehensive Test Results", 0))
  /\ exitCode' = IF passed = total THEN 0 ELSE 1
  /\ pc' = "done"
  /\ UNCHANGED <<launcher, manual,
                 tests, idx, passed, total, result, promise, inflight, issued,
                 settledBy, status, data, evaluated, results, verdicts>>

\* runAllTests after its loop: the aggregate report.
Report ==
  /\ pc = "loop"
  /\ idx > total
  /\ report' = [printed |-> TRUE, passed |-> passed, total |-> total,
                rate |-> SuccessRate(passed, total), banner |-> Banner(passed, total)]
  /\ out' = Append(out, Line("Comprehensive Test Results", 0))
  /\ pc' = "done"
  /\ UNCHANGED <<launcher, manual, exitCode,
                 tests, idx, passed, total, result, promise, inflight, issued,
                 settledBy, status, data, evaluated, results, verdicts>>

Next ==
  \/ Main
  \/ \E r \in 0..Len(tests), st \in Statuses, body \in RunBodies : ResponseEnd(r, st, body)
  \/ \E r \in 0..Len(tests) : RequestError(r)
  \/ \E r \in 0..Len(tests) : RequestTimeout(r)
  \/ PreflightThen
  \/ PreflightCatch
  \/ RunTestBegin
  \/ RunTestResume
  \/ RunAllTestsNext
  \/ Report

Spec == Init /\ [][Next]_vars

\* The steps of the script up to a request or to the next iteration:
\* synchronous code, and continuations of settled promises, which the event
\* loop runs without waiting for anything.
ScriptStep ==
  \/ Main
  \/ PreflightThen
  \/ PreflightCatch
  \/ RunTestBegin
  \/ RunAllTestsNext

\* The run under the scheduling of the event loop: a step of the script that
\* is ready is taken.  Nothing is assumed about the network.  The weak
\* fairness of RunTestResume and of Report is written out, WF_vars(A) being
\* []<>~ENABLED <<A>>_vars \/ []<><<A>>_vars, with the conditions under which
\* they are enabled: runTest resumes when its promise is settled, the report
\* follows the last iteration.
SpecLive ==
  /\ Spec
  /\ WF_vars(ScriptStep)
  /\ ([]<>(pc # "settled") \/ []<><<RunTestResume>>_vars)
  /\ ([]<>~(pc = "loop" /\ idx > total) \/ []<><<Report>>_vars)

(***************************************************************************)
(* Properties of the run.                                                  *)
(***************************************************************************)

\* The positions of out that hold the "Testing" line of TestCase k.
TestingLines(k) == {i \in 1..Len(out) : out[i] = Line("Testing", k)}

\* The "Server is not running" instructions were printed.
NotRunningPrinted == \E i \in 1..Len(out) : out[i].text = "Server is not running"

\* The line of the then-callback of the probe is printed.
RunningPrinted == \E i \in 1..Len(out) : out[i].text = "Server is running"

\* The number of TestCases whose iteration of the loop in runAllTests has
\* ended: runTest has returned and its result has been counted.
Completed == IF pc \in {"loop", "await", "settled", "returned", "done"} THEN idx - 1 ELSE 0

\* The number of completed TestCases whose verdict is "passed".
CompletedPassed == Cardinality({i \in 1..Completed : verdicts[i] = "passed"})

\* The number of TestCases that received the verdict "passed".
PassedVerdicts == Cardinality({i \in 1..Len(verdicts) : verdicts[i] = "passed"})

\* runTest was entered for TestCase k.
Started(k) ==
  /\ pc \in {"loop", "await", "settled", "returned", "done", "aborted"}
  /\ k < idx \/ (k = idx /\ pc \in {"await", "settled", "returned", "aborted"})

PreflightFailureSkipsRun ==
  LET probeFailed == 0 \in DOMAIN promise /\ promise[0] = "rejected"
  IN /\ probeFailed =>
          /\ pc \in {"preflightSettled", "skipped"}
          /\ pc = "skipped" => NotRunningPrinted
          /\ issued = <<0>>
          /\ verdicts = <<>>
          /\ ~report.printed
          /\ \A k \in 1..Len(tests) : TestingLines(k) = {}
     /\ NotRunningPrinted => probeFailed /\ pc = "skipped"

\* The probe timed out, the run was skipped, and its answer came afterwards.
PreflightFailureSkipsRunWitness ==
  pc = "skipped" /\ settledBy = "timeout" /\ inflight = {} /\ NotRunningPrinted

TestCasesRunInOrderOneAtATime ==
  [][issued' # issued =>
       \E k \in 0..Len(tests) :
         /\ issued' = Append(issued, k)
         /\ \A i \in 1..Len(issued) : issued[i] < k
         /\ \A j \in DOMAIN promise : promise[j] # "pending"
         /\ k >= 1 => /\ idx = k
                      /\ Len(verdicts) = k - 1
                      /\ passed = PassedVerdicts]_vars

\* The requests of the probe and of four TestCases were issued.
TestCasesRunInOrderOneAtATimeWitness ==
  issued = <<0, 1, 2, 3, 4>> /\ pc = "await"

\* C5: a TestCase answered with a status other than 200 is failed with no
\* Check evaluated, and the loop goes on to the next TestCase with passed
\* unchanged.
Non200FailsWithoutChecks ==
  /\ [](pc = "returned" /\ promise[idx] = "fulfilled" /\ status # 200 =>
          /\ verdicts[idx] = "failed"
          /\ ~result
          /\ ~evaluated
          /\ results = <<>>)
  /\ [][pc = "returned" /\ promise[idx] = "fulfilled" /\ status # 200 =>
          /\ pc' = "loop"
          /\ idx' = idx + 1
          /\ passed' = passed
          /\ verdicts' = verdicts]_vars

\* The first TestCase was answered 404 and the second one has been started.
Non200FailsWithoutChecksWitness ==
  /\ pc = "await"
  /\ idx = 2
  /\ verdicts = <<"failed">>
  /\ promise[1] = "fulfilled"
  /\ ~makeRequestThrows(tests[1].url)
  /\ tests[1] # BadTokenTest

\* C6: at most one request is in flight at any moment.
AtMostOneRequestInFlight == Cardinality(inflight) <= 1

\* C7: no exception leaves runTest: the loop is never aborted, runTest
\* returns a boolean with its verdict printed, and a finished run has a
\* verdict for every TestCase.
NoFailureEscapesRunTest ==
  /\ pc # "aborted"
  /\ pc = "settled" => ~RunTestOutcome(tests[idx], promise[idx], status, data).escaped
  /\ pc = "returned" => result \in BOOLEAN /\ Len(verdicts) = idx
  /\ pc = "done" => Len(verdicts) = Len(tests)

\* The URL of the first TestCase did not parse, the pattern of the second
\* one threw after a 200 answer, and runTest returned.
NoFailureEscapesRunTestWitness ==
  /\ pc = "returned"
  /\ idx = 2
  /\ makeRequestThrows(tests[1].url)
  /\ status = 200
  /\ evaluated
  /\ results = <<>>
  /\ verdicts = <<"failed", "failed">>

\* C8: a TestCase whose request timed out and one whose request failed with
\* a connection error both end failed, with no Check evaluated, and the loop
\* goes on with passed unchanged.
TimeoutSameAsConnectionError ==
  /\ [](pc = "returned" /\ settledBy \in {"timeout", "error"} =>
          /\ verdicts[idx] = "failed"
          /\ ~result
          /\ ~evaluated
          /\ results = <<>>)
  /\ [][pc = "returned" /\ settledBy \in {"timeout", "error"} =>
          /\ pc' = "loop"
          /\ idx' = idx + 1
          /\ passed' = passed
          /\ verdicts' = verdicts]_vars

\* The first request was rejected and its socket has closed (a connection
\* error, or a timeout followed by one); the second timed out and runTest
\* has returned: both verdicts are failed.
TimeoutSameAsConnectionErrorWitness ==
  /\ pc = "returned"
  /\ idx = 2
  /\ settledBy = "timeout"
  /\ promise[1] = "rejected"
  /\ ~makeRequestThrows(tests[1].url)
  /\ 1 \notin inflight
  /\ 0 \notin inflight
  /\ verdicts = <<"failed", "failed">>

\* C15: a run issues exactly one preflight probe, to the root path of the
\* base URL and before anything else, and no TestCase is started or
\* requested before the probe was answered.
OneProbeBeforeAnyTestCase ==
  /\ RootUrl.href = "http://localhost:3000/"
  /\ ~makeRequestThrows(RootUrl)
  /\ Cardinality({k \in 1..Len(issued) : issued[k] = 0}) = (IF pc = "start" THEN 0 ELSE 1)
  /\ pc # "start" => issued[1] = 0
  /\ (Len(issued) > 1 \/ Started(1)) =>
       /\ 0 \in DOMAIN promise
       /\ promise[0] = "fulfilled"
       /\ 0 \notin inflight

\* A run of three TestCases is over: the probe, then one request each.
OneProbeBeforeAnyTestCaseWitness ==
  /\ pc = "done"
  /\ issued = <<0, 1, 2, 3>>

\* The promise of request r is pending.
Pending(r) == r \in DOMAIN promise /\ promise[r] = "pending"

\* The report is printed and every TestCase has its verdict.
ReportPrinted == report.printed /\ Len(verdicts) = Len(tests)

\* C16: if every request eventually ends, errors or times out (no promise
\* stays pending for ever), then once the preflight has succeeded the run
\* reaches the aggregate report with all N TestCases resolved; and while a
\* request is pending no later TestCase is started.
ReportReachedUnlessARequestHangs ==
  /\ (\A r \in 0..Len(DeclaredTests) : []<>(~Pending(r)))
       => ((pc = "preflightSettled" /\ promise[0] = "fulfilled") ~> ReportPrinted)
  /\ [](\A r \in 1..Len(tests) :
          Pending(r) => /\ pc = "await" /\ idx = r /\ ~report.printed
                        /\ \A k \in (r + 1)..Len(tests) : ~Started(k))

\* The four declared TestCases were run, the second request timed out or
\* failed, and the report is printed.
ReportReachedUnlessARequestHangsWitness ==
  /\ ReportPrinted
  /\ tests = DeclaredTests
  /\ promise[2] = "rejected"
  /\ verdicts[4] = "passed"

\* C18: no step of a run changes the TestCase list: every TestCase keeps
\* the name, the url and the ordered checks it was declared with.
TestCaseListNeverModified ==
  [][/\ tests' = tests
     /\ \A k \in 1..Len(tests) :
          /\ tests'[k].name = tests[k].name
          /\ tests'[k].url = tests[k].url
          /\ tests'[k].checks = tests[k].checks]_vars

\* The declared list was run to its report, with Checks evaluated and a
\* partial pass among the verdicts, and is the declared list still.
TestCaseListNeverModifiedWitness ==
  /\ pc = "done"
  /\ tests = DeclaredTests
  /\ \E k \in 1..Len(verdicts) : verdicts[k] = "partial pass"
  /\ \E k \in 1..Len(verdicts) : verdicts[k] = "passed"

\* C19: each request goes out with the client of its URL's scheme, so a
\* TestCase with an https URL is requested like one with an http URL, and
\* does not fail before a request is sent.
RequestIssuedForEitherScheme ==
  \A k \in 1..Len(tests) :
    (/\ Started(k)
     /\ tests[k].url.parses
     /\ tests[k].url.protocol \in {"http:", "https:"})
      => /\ \E n \in 1..Len(issued) : issued[n] = k
         /\ (idx = k => settledBy # "throw")

\* C20: the harness never sets the exit status: it is the one the process
\* started with, whether every TestCase passed, one failed or passed
\* partially, or the preflight failed; and no rejection is left unhandled,
\* which would set it.
ExitStatusSameForEveryOutcome ==
  /\ exitCode = 0
  /\ pc # "aborted"

\* The run is over and its sockets are closed, with one TestCase passed, one
\* failed and one passed partially.
ExitStatusSameForEveryOutcomeWitness ==
  /\ pc = "done"
  /\ inflight = {}
  /\ \A v \in {"passed", "failed", "partial pass"} :
       \E k \in 1..Len(verdicts) : verdicts[k] = v

\* C21: a completed run prints exactly one closing banner: "All
\* comprehensive tests passed" when every TestCase got the verdict "passed",
\* "Some tests failed" in every other case.
BannerTellsWhetherAllPassed ==
  /\ report.printed =>
       /\ Len(verdicts) = Len(tests)
       /\ report.banner \in {"All comprehensive tests passed", "Some tests failed"}
       /\ (report.banner = "All comprehensive tests passed")
            = (\A k \in 1..Len(verdicts) : verdicts[k] = "passed")
       /\ (report.banner = "Some tests failed")
            = (\E k \in 1..Len(verdicts) : verdicts[k] \in {"failed", "partial pass"})
  /\ ~report.printed => report.banner = "none"

\* A run of three TestCases ended with two of them passed and the banner
\* "Some tests failed".
BannerTellsWhetherAllPassedWitness ==
  /\ pc = "done"
  /\ Len(tests) = 3
  /\ report.passed = 2
  /\ report.banner = "Some tests failed"

\* C23: the promise of a request is settled at most once: once fulfilled or
\* rejected it keeps that state, and an event of the request that arrives
\* afterwards (the answer or a connection error after the timeout) changes
\* neither the answer the script holds, nor where the script is, nor any
\* verdict, count or printed line.
PromiseSettlesAtMostOnce ==
  [][ /\ \A r \in DOMAIN promise :
           promise[r] # "pending" => promise'[r] = promise[r]
      /\ (\E r \in inflight : r \notin inflight' /\ promise[r] # "pending") =>
           UNCHANGED <<promise, settledBy, status, data, pc, idx, passed, result,
                       evaluated, results, verdicts, out, report, exitCode>>
    ]_vars

\* The request of the only TestCase timed out, the TestCase failed, the
\* report is printed, and an event of that request has arrived since.
PromiseSettlesAtMostOnceWitness ==
  /\ pc = "done"
  /\ Len(tests) = 1
  /\ promise[1] = "rejected"
  /\ settledBy = "timeout"
  /\ 1 \notin inflight
  /\ verdicts = <<"failed">>

\* C24: the probe succeeds for any answer, whatever its status code: once
\* the answer of the root path has arrived the script prints "Server is
\* running" and enters the run over the whole TestCase list, for status 200
\* and for any other status alike, and the run is skipped only when the
\* probe ended in a connection error or a timeout.
ProbeSucceedsForAnyStatus ==
  /\ [](pc = "preflightSettled" =>
          (promise[0] = "fulfilled") = (settledBy = "end" /\ status \in Statuses))
  /\ [][ pc = "preflightSettled" /\ promise[0] = "fulfilled" =>
           /\ pc' = "loop"
           /\ idx' = 1
           /\ total' = Len(tests)
           /\ verdicts' = <<>>
           /\ out'[Len(out) + 1].text = "Server is running"
           /\ ~NotRunningPrinted' ]_vars
  /\ [](pc = "skipped" => settledBy \in {"error", "timeout"} /\ ~RunningPrinted)
  /\ [](RunningPrinted /\ pc = "done" => Len(verdicts) = Len(tests))

\* The root path answered 404, the script has printed "Server is running"
\* and stands at the head of the loop before the first TestCase.
ProbeSucceedsForAnyStatusWitness ==
  /\ pc = "loop"
  /\ idx = 1
  /\ total = Len(tests)
  /\ status = 404
  /\ settledBy = "end"
  /\ RunningPrinted

\* C25: at every point of the loop of runAllTests the counter passed is the
\* number of completed TestCases with the verdict "passed" (a partial pass
\* and a failure add nothing), 0 <= passed <= completed <= N, and passed
\* never decreases during the run.
PassedCountsPassedVerdicts ==
  /\ [](pc \in {"loop", "await", "settled", "returned", "done"} =>
          /\ Completed <= Len(verdicts)
          /\ passed = CompletedPassed
          /\ 0 <= passed
          /\ passed <= Completed
          /\ Completed <= Len(tests))
  /\ [][ (pc \in {"loop", "await", "settled", "returned"}) =>
           (passed' >= passed /\ passed' <= passed + 1) ]_vars

\* Two TestCases are completed, the first passed and the second was a
\* partial pass, the counter stands at 1 and the third TestCase is awaited.
PassedCountsPassedVerdictsWitness ==
  /\ pc = "await"
  /\ idx = 3
  /\ verdicts = <<"passed", "partial pass">>
  /\ passed = 1

(***************************************************************************)
(* The aggregate report on its own: runAllTests at the end of its loop,    *)
(* for every count of passed TestCases of lists of up to MaxTotal          *)
(* TestCases.                                                              *)
(***************************************************************************)

\* The longest list the report is computed for.
MaxTotal == 40

\* A body on which every Check of a declared TestCase is found.
GoodBodyOf(test) ==
  CASE test = HomepageTest -> HomeBody
    [] test = F8Test -> F8Body
    [] OTHER -> DataBody

\* The state in which the loop of runAllTests ends, after t TestCases of which
\* the last p passed and the others were answered 404.
InitReport ==
  \E t \in 1..MaxTotal : \E p \in 0..t :
    /\ tests = [i \in 1..t |-> DeclaredTests[((i - 1) % Len(DeclaredTests)) + 1]]
    /\ pc = "loop"
    /\ idx = t + 1
    /\ passed = p
    /\ total = t
    /\ result = (p > 0)
    /\ promise = [r \in 0..t |-> "fulfilled"]
    /\ inflight = {}
    /\ issued = [i \in 1..(t + 1) |-> i - 1]
    /\ settledBy = "end"
    /\ status = IF p > 0 THEN 200 ELSE 404
    /\ data = IF p > 0 THEN GoodBodyOf(tests[t]) ELSE NotJsonBody
    /\ evaluated = (p > 0)
    /\ results = IF p > 0 THEN checkContent(data, tests[t].checks).results ELSE <<>>
    /\ verdicts = [i \in 1..t |-> IF i > t - p THEN "passed" ELSE "failed"]
    /\ out = << Line("Checking if development server is running", 0),
                Line("Server is running", 0),
                Line("Starting comprehensive tests", 0) >>
               \o [i \in 1..(2 * t) |->
                     IF i % 2 = 1 THEN Line("Testing", (i + 1) \div 2)
                     ELSE Line(verdicts[i \div 2], i \div 2)]
    /\ report = NoReport
    /\ exitCode = 0
    /\ manual = NoManual
    /\ LauncherIdle

NextReport == Report

SpecReport == InitReport /\ [][NextReport]_vars

\* C9: the report shows P/N and the rate round(100 * P / N), halves rounded
\* up, an integer from 0 to 100, for P the number of "passed" verdicts of the
\* N TestCases.
SuccessRateIsRoundedPercentage ==
  report.printed =>
    LET P == PassedVerdicts
        N == Len(tests)
    IN /\ report.passed = P
       /\ report.total = N
       /\ report.rate \in 0..100
       /\ (2 * report.rate - 1) * N <= 200 * P
       /\ 200 * P < (2 * report.rate + 1) * N

(***************************************************************************)
(* checkContent on its own: the checks of one TestCase on one body.        *)
(***************************************************************************)

\* The keys the objects of the bodies are made of.
KeyPool == <<"total_questions", "results", "successful", "hasOwnProperty">>

One == <<"1">>

\* "key": value
Member(key, value) == <<Quote, key, Quote, ":">> \o value

RECURSIVE Members(_, _, _)
\* The members of the keys of KeyPool at the positions of set from i on,
\* each with the value 1, separated by commas.
Members(set, i, first) ==
  IF i > Len(KeyPool) THEN <<>>
  ELSE IF i \in set
    THEN (IF first THEN <<>> ELSE <<",">>) \o Member(KeyPool[i], One)
           \o Members(set, i + 1, FALSE)
  ELSE Members(set, i + 1, first)

\* The JSON text of the object with the keys of KeyPool at the positions of set.
ObjectText(set) == <<"{">> \o Members(set, 1, TRUE) \o <<"}">>

\* JSON texts: objects, and values that are no mapping.
JsonTexts ==
  {ObjectText(set) : set \in SUBSET (1..Len(KeyPool))}
    \cup { <<"[", "]">>,
           <<"[", "1", ",", "1", "]">>,
           <<"[">> \o ObjectText({1, 2, 3}) \o <<"]">>,
           <<Quote, "total_questions", Quote>>,
           <<Quote, "results", Quote>>,
           <<"16337">>,
           <<"null">>,
           <<"true">>,
           <<"{">> \o Member("results", ObjectText({1, 3})) \o <<"}">>,
           <<"{">> \o Member("total_questions", <<"null">>) \o <<",">>
             \o Member("successful", <<"[", "]">>) \o <<"}">> }

\* A text as it is, padded with white space, cut short, with a symbol too
\* many, and without its first symbol.
Variants(text) ==
  { text,
    <<" ">> \o text \o <<" ">>,
    SubSeq(text, 1, Len(text) - 1),
    text \o <<"}">>,
    SubSeq(text, 2, Len(text)) }

\* Checks of every type in one list, one of them twice.
MixedTest ==
  [name |-> "Mixed checks", url |-> Url("http://localhost:3000/", TRUE, "http:"),
   checks |-> << Check("content", <<"16,337">>),
                 Check("element", <<"stats-grid">>),
                 Check("json", <<"results">>),
                 Check("element", <<"filters">>),
                 Check("title", <<"Future Agent - ">>),
                 Check("element", <<"stats-grid">>) >>]

\* The same json Check at two positions.
RepeatTest ==
  [name |-> "Repeated checks", url |-> Url("http://localhost:3000/", TRUE, "http:"),
   checks |-> << Check("json", <<"results">>),
                 Check("content", <<"results">>),
                 Check("json", <<"results">>),
                 Check("json", <<"successful">>) >>]

\* Element tokens that are tag names or the beginning of one.
TagTokenTest ==
  [name |-> "Tag tokens", url |-> Url("http://localhost:3000/", TRUE, "http:"),
   checks |-> << Check("element", <<"h">>),
                 Check("element", <<"div">>),
                 Check("element", <<"H", "1">>),
                 Check("element", <<"features">>) >>]

\* Title texts that differ in case only.
TitleCaseTest ==
  [name |-> "Title case", url |-> Url("http://localhost:3000/", TRUE, "http:"),
   checks |-> << Check("title", <<"H">>),
                 Check("title", <<"h">>),
                 Check("title", <<"Cannabis Industry Knowledge">>) >>]

\* Bodies around the title element: two titles, an upper-case tag with an
\* attribute, a title that is not closed, a title with a tag inside, a title
\* after other text, and a page without one.
TitleBodies ==
  { << "<", "title", ">", "h", "<", "/", "title", ">",
       "<", "title", ">", "H", "<", "/", "title", ">" >>,
    << "<", "TITLE", " ", "id=", Quote, "h", Quote, ">", "H", "<", "/", "TITLE", ">" >>,
    << "<", "title", ">", "H" >>,
    << "<", "title", ">", "H", "<", "h", "1", ">", "<", "/", "title", ">" >>,
    << "H", "<", "h", "1", ">", "<", "title", ">", "h", " ", "H", "<", "/", "title", ">" >>,
    << "<", "h", "1", ">", "H", "<", "/", "h", "1", ">" >> }

\* Bodies around one tag: the token as a class among others, as an id, as
\* the value of both, as text only, and in a tag of a longer name.
ElementBodies ==
  { << "<", "div", " ", "class=", Quote, "features", " ", "h", Quote, ">" >>,
    << "<", "div", " ", "ID=", Quote, "features", Quote, ">" >>,
    << "<", "div", " ", "id=", Quote, "features", " ", "h", Quote, ">" >>,
    << "<", "p", ">", "features", " ", "div", " ", "h", "<", "/", "p", ">" >>,
    << "<", "DIV", ">", "<", "h", "1", ">" >>,
    << "<", "h", "tml", ">", "<", "h", "ead", ">" >> }

\* The TestCases of manual-test.js, whose checks are element tokens.
ManualHomepageTest ==
  [name |-> "Homepage Load Test", url |-> Url("http://localhost:3000/", TRUE, "http:"),
   checks |-> << Check("element", <<"h", "1">>),
                 Check("element", <<"stats-grid">>),
                 Check("element", <<"features">>),
                 Check("element", <<"cta-section">>) >>]

ManualF8Test ==
  [name |-> "F8 Comparison Page Load Test",
   url |-> Url("http://localhost:3000/f8-comparison.html", TRUE, "http:"),
   checks |-> << Check("element", <<"h", "1">>),
                 Check("element", <<"stats-grid">>),
                 Check("element", <<"filters">>),
                 Check("element", <<"comparisonResults">>) >>]

\* Element tokens of which the last is no pattern.
BadElementTest ==
  [name |-> "Element token that is no pattern",
   url |-> Url("http://localhost:3000/", TRUE, "http:"),
   checks |-> << Check("element", <<"features">>), Check("element", <<"(">>) >>]

CheckBodies ==
  UNION {Variants(text) : text \in JsonTexts} \cup RunBodies \cup TitleBodies
    \cup ElementBodies

CheckTests ==
  {TestPool[i] : i \in 1..Len(TestPool)}
    \cup {MixedTest, RepeatTest, TagTokenTest, TitleCaseTest}
    \cup {ManualHomepageTest, ManualF8Test, BadElementTest}

InitCheck ==
  /\ tests \in {<<t>> : t \in CheckTests}
  /\ data \in CheckBodies
  /\ pc = "check"
  /\ idx = 1
  /\ passed = 0
  /\ total = 1
  /\ result = FALSE
  /\ promise = <<>>
  /\ inflight = {}
  /\ issued = <<>>
  /\ settledBy = "none"
  /\ status = 200
  /\ evaluated = FALSE
  /\ results = <<>>
  /\ verdicts = <<>>
  /\ out = <<>>
  /\ report = NoReport
  /\ exitCode = 0
  /\ manual = NoManual
  /\ LauncherIdle

\* manual-test.js, the body of the loop of checkContent: found starts false
\* and each of the three tests that matches sets it.
ManualFound(html, check) ==
  LET afterClass == IF ClassRegexTest(html, check) THEN TRUE ELSE FALSE
      afterId == IF IdRegexTest(html, check) THEN TRUE ELSE afterClass
  IN IF TagRegexTest(html, check) THEN TRUE ELSE afterId

RECURSIVE ManualCheckLoop(_, _, _, _)
\* manual-test.js, the loop of checkContent from the i-th token on, rs the
\* results pushed so far.  new RegExp throws on a token that is no pattern.
ManualCheckLoop(html, checks, i, rs) ==
  IF i > Len(checks) THEN [threw |-> FALSE, results |-> rs]
  ELSE IF RegExpThrows(checks[i]) THEN [threw |-> TRUE, results |-> <<>>]
  ELSE ManualCheckLoop(html, checks, i + 1,
                       Append(rs, [check |-> checks[i],
                                   found |-> ManualFound(html, checks[i])]))

\* manual-test.js, checkContent(html, checks).
ManualCheckContent(html, checks) == ManualCheckLoop(html, checks, 1, <<>>)

\* manual-test.js, runTest once checkContent gave r: PASSED when every token
\* is found, PARTIAL PASS otherwise, and the catch clause when it threw.
ManualChecked(r) ==
  IF r.threw THEN [state |-> "threw", results |-> <<>>, verdict |-> "failed"]
  ELSE [state |-> "returned", results |-> r.results,
        verdict |-> IF \A i \in 1..Len(r.results) : r.results[i].found
                    THEN "passed" ELSE "partial pass"]

\* manual-test.js, runTest from its await on, for an answer with status st.
ManualRunTest(st, html, checks) ==
  IF st = 200 THEN ManualChecked(ManualCheckContent(html, checks))
  ELSE [state |-> "returned", results |-> <<>>, verdict |-> "failed"]

\* The TestCase has element checks only: manual-test.js can express it.
ElementOnly(test) == \A i \in 1..Len(test.checks) : test.checks[i].type = "element"

\* The checks of an element-only TestCase as manual-test.js lists them.
Tokens(checks) == [i \in 1..Len(checks) |-> checks[i].value]

\* manual-test.js handles the same response for the same tokens.
ManualRunTestResume ==
  /\ pc \in {"check", "checked", "threw"}
  /\ manual.state = "none"
  /\ ElementOnly(tests[idx])
  /\ manual' = ManualRunTest(status, data, Tokens(tests[idx].checks))
  /\ UNCHANGED <<launcher, exitCode, tests, pc, idx, passed, total, result, promise,
                 inflight, issued, settledBy, status, data, evaluated, results,
                 verdicts, out, report>>

\* const results = checkContent(data, test.checks)
CheckContentCall ==
  /\ pc = "check"
  /\ LET r == checkContent(data, tests[idx].checks)
     IN /\ results' = r.results
        /\ pc' = IF r.threw THEN "threw" ELSE "checked"
  /\ evaluated' = TRUE
  /\ UNCHANGED <<launcher, manual, exitCode,
                 tests, idx, passed, total, result, promise, inflight, issued,
                 settledBy, status, data, verdicts, out, report>>

NextCheck == CheckContentCall \/ ManualRunTestResume

SpecCheck == InitCheck /\ [][NextCheck]_vars

\* C10: a json Check with key K is found exactly when the body parses as JSON
\* and the parsed top-level value is a mapping that has K as a key.
JsonFoundIffMappingHasKey ==
  pc = "checked" =>
    \A i \in 1..Len(results) :
      results[i].check.type = "json" =>
        results[i].found =
          LET json == JSONparse(data)
          IN json.ok /\ json.kind = "object" /\ results[i].check.value \in json.keys

\* checks without the one at position i.
Without(checks, i) == SubSeq(checks, 1, i - 1) \o SubSeq(checks, i + 1, Len(checks))

\* C11: a json Check on a body that is not valid JSON is not found and
\* touches nothing else: checkContent ends the way it ends on the list
\* without that Check, every other Check is evaluated and has the outcome it
\* has on that shorter list.
BadJsonAffectsOnlyItsOwnCheck ==
  pc \in {"checked", "threw"} =>
    \A i \in 1..Len(tests[idx].checks) :
      (tests[idx].checks[i].type = "json" /\ ~JSONparse(data).ok) =>
        \E other \in {checkContent(data, Without(tests[idx].checks, i))} :
          /\ (pc = "threw") = other.threw
          /\ pc = "checked" =>
               /\ Len(results) = Len(tests[idx].checks)
               /\ ~results[i].found
               /\ \A j \in (1..Len(results)) \ {i} :
                    /\ results[j].check = tests[idx].checks[j]
                    /\ results[j].found = other.results[IF j < i THEN j ELSE j - 1].found

\* A json Check was evaluated on a page that is no JSON, between Checks of
\* other types that are found.
BadJsonAffectsOnlyItsOwnCheckWitness ==
  /\ pc = "checked"
  /\ ~JSONparse(data).ok
  /\ \E i \in 2..(Len(results) - 1) :
       /\ results[i].check.type = "json"
       /\ ~results[i].found
       /\ results[i - 1].found
       /\ results[i + 1].found

\* Every occurrence of the token T in html is the beginning of a longer tag
\* name: right after a "<", and followed by a further symbol of the name.
OnlyAsPrefixOfTagName(html, T) ==
  /\ \E c \in 1..Len(html) : MatchAt(html, c, T, TRUE)
  /\ \A c \in 1..Len(html) :
       MatchAt(html, c, T, TRUE) =>
         /\ c > 1
         /\ html[c - 1] = "<"
         /\ c + Len(T) <= Len(html)
         /\ html[c + Len(T)] \notin {">", " ", "/", "<", Quote}

\* C12: an element Check with token T is found exactly when the body has a
\* tag whose class contains T, a tag whose id equals T, or an opening tag
\* named T; in particular it is not found on a body where T occurs only as
\* a strict prefix of a longer tag name.
ElementTokenMatchesWholeTagName ==
  pc = "checked" =>
    \A i \in 1..Len(results) :
      (/\ results[i].check.type = "element"
       /\ OnlyAsPrefixOfTagName(data, results[i].check.value))
        => ~results[i].found

\* html[a..c+3] is a title element: "<" and the name at a, the ">" of the
\* opening tag at b, the text html[b+1..c-1] and the closing tag at c.
IsTitleElement(html, a, b, c) ==
  /\ a + 1 < b /\ b < c /\ c + 3 <= Len(html)
  /\ html[a] = "<"
  /\ Lower(html[a + 1]) = "title"
  /\ html[b] = ">"
  /\ \A k \in (a + 2)..(b - 1) : html[k] # ">"
  /\ \A k \in (b + 1)..(c - 1) : html[k] # "<"
  /\ html[c] = "<" /\ html[c + 1] = "/" /\ Lower(html[c + 2]) = "title"
  /\ html[c + 3] = ">"

\* A title element begins at a.
TitleElementAt(html, a) ==
  \E b \in (a + 2)..Len(html) : \E c \in (b + 1)..Len(html) : IsTitleElement(html, a, b, c)

\* C13: a title Check with text S is found exactly when the body has a
\* <title>...</title> element, its name in any case, and the text of the
\* first one contains S, compared with regard to case; it is never found on a
\* body without a title element.
TitleFoundIffFirstTitleContains ==
  pc = "checked" =>
    \A i \in 1..Len(results) :
      results[i].check.type = "title" =>
        /\ results[i].found =
             \E a \in 1..Len(data) :
               /\ \A x \in 1..(a - 1) : ~TitleElementAt(data, x)
               /\ \E b \in (a + 2)..Len(data) : \E c \in (b + 1)..Len(data) :
                    /\ IsTitleElement(data, a, b, c)
                    /\ \E k \in (b + 1)..(c - Len(results[i].check.value)) :
                         \A j \in 1..Len(results[i].check.value) :
                           data[k + j - 1] = results[i].check.value[j]
        /\ (\A a \in 1..Len(data) : ~TitleElementAt(data, a)) => ~results[i].found

\* On a body with two titles, the first "h" and the second "H", the title
\* Check for "H" is not found and the one for "h" is.
TitleFoundIffFirstTitleContainsWitness ==
  /\ pc = "checked"
  /\ Cardinality({a \in 1..Len(data) : TitleElementAt(data, a)}) = 2
  /\ \E i, j \in 1..Len(results) :
       /\ results[i].check = Check("title", <<"H">>)
       /\ ~results[i].found
       /\ Includes(data, <<"H">>)
       /\ results[j].check = Check("title", <<"h">>)
       /\ results[j].found

\* The orders in which the three sub-tests can be applied.
SubTestOrders ==
  {order \in [1..3 -> {"class", "id", "tag"}] :
     \A x, y \in 1..3 : x # y => order[x] # order[y]}

\* C14: the found value of an element Check is the same in whichever order
\* the class, id and tag sub-tests are applied, and it is true as soon as one
\* of them matches.
ElementFoundInAnyOrder ==
  pc = "checked" =>
    \A i \in 1..Len(results) :
      results[i].check.type = "element" =>
        /\ \A order \in SubTestOrders :
             OrInOrder(order, data, results[i].check.value, 1) = results[i].found
        /\ \A kind \in {"class", "id", "tag"} :
             SubTest(kind, data, results[i].check.value) => results[i].found

\* One element Check is found by the tag sub-test alone, the last of the
\* three, another by the class sub-test alone, a third by the id sub-test
\* alone.
ElementFoundInAnyOrderWitness ==
  /\ pc = "checked"
  /\ \A kind \in {"class", "id", "tag"} :
       \E i \in 1..Len(results) :
         /\ results[i].check.type = "element"
         /\ results[i].found
         /\ \A other \in {"class", "id", "tag"} :
              SubTest(other, data, results[i].check.value) = (other = kind)

\* C17: the outcome of a Check depends on the Check and the body only: it
\* is the outcome of that Check evaluated alone, the same at every position
\* at which the Check stands in the list, and the same in the list taken in
\* the opposite order, next to other Checks.
CheckOutcomeDependsOnCheckAndBody ==
  pc = "checked" =>
    \A i \in 1..Len(results) :
      /\ results[i].found = checkContent(data, <<results[i].check>>).results[1].found
      /\ \A j \in 1..Len(results) :
           results[j].check = results[i].check => results[j].found = results[i].found
      /\ results[i].found =
           checkContent(data, [k \in 1..Len(results) |->
                                 results[Len(results) + 1 - k].check])
             .results[Len(results) + 1 - i].found

\* One Check stands at two positions and is found at both, with a Check that
\* is not found between them and a title Check after one that is found.
CheckOutcomeDependsOnCheckAndBodyWitness ==
  /\ pc = "checked"
  /\ \E i, j \in 1..Len(results) :
       /\ i + 1 < j
       /\ results[i].check = results[j].check
       /\ results[i].found
       /\ \E k \in (i + 1)..(j - 1) : ~results[k].found
  /\ \E i \in 2..Len(results) :
       /\ results[i].check.type = "title"
       /\ ~results[i].found
       /\ results[i - 1].found


\* C26: checkContent yields exactly one outcome per Check, in the order of
\* the list: for every body and every list of n Checks the call ends with a
\* result of length n whose i-th entry is about the i-th Check.
OneOutcomePerCheckInOrder ==
  pc \in {"checked", "threw"} =>
    /\ Len(results) = Len(tests[idx].checks)
    /\ \A i \in 1..Len(results) :
         /\ results[i].check = tests[idx].checks[i]
         /\ results[i].found \in BOOLEAN


\* C27: the element check of manual-test.js and the element check of
\* comprehensive-test.js agree: for every body and every token both give the
\* same found value (and both throw on the same tokens), so a TestCase made
\* of element checks only gets the same verdict from both scripts on the
\* same response.
ElementCheckSameInBothScripts ==
  (pc \in {"checked", "threw"} /\ manual.state # "none") =>
    /\ (manual.state = "threw") = (pc = "threw")
    /\ Len(manual.results) = Len(results)
    /\ \A i \in 1..Len(results) :
         /\ manual.results[i].check = results[i].check.value
         /\ manual.results[i].found = results[i].found
    /\ manual.verdict = RunTestOutcome(tests[idx], "fulfilled", status, data).verdict

\* Both scripts have checked the same body for the same four tokens, and
\* both found some of them and missed others: a partial pass in both.
ElementCheckSameInBothScriptsWitness ==
  /\ pc = "checked"
  /\ manual.state = "returned"
  /\ manual.verdict = "partial pass"
  /\ Len(results) = 4
  /\ \E i, j \in 1..Len(results) :
       /\ results[i].found /\ manual.results[i].found
       /\ ~results[j].found /\ ~manual.results[j].found


(***************************************************************************)
(* run-tests.js: the launcher that checks for the docs directory, starts   *)
(* python's http.server with execSync, and two seconds later probes the    *)
(* root path with curl.  execSync returns when the child has ended: with   *)
(* its output when the exit status is 0, with an exception otherwise.      *)
(***************************************************************************)

\* The directories the launcher is started in, and those with a docs
\* directory in them.
Cwds == {"/repo", "/site", "/srv/www", "/repo/docs", "/home"}
HasDocs(dir) == dir \in {"/repo", "/site", "/srv/www"}

\* How the server process can end: python leaves with 0 on an interrupt,
\* with 1 when it cannot bind the port, with 2 on bad arguments, the shell
\* leaves with 127 when there is no python, or a signal ends the process.
ExitOutcomes ==
  {Exited(0), Exited(1), Exited(2), Exited(127), Killed("SIGTERM"), Killed("SIGKILL")}

\* What the curl of the probe can give: a status code when something
\* listens on port 3000, no answer within 5000 ms, or no connection.
CurlOutcomes ==
  IF server = "running" \/ portTaken THEN {"200", "404", "500", "timeout"}
  ELSE {"refused"}

InitRunTests ==
  /\ tests = DeclaredTests
  /\ pc = "launch"
  /\ idx = 0
  /\ passed = 0
  /\ total = 0
  /\ result = FALSE
  /\ promise = <<>>
  /\ inflight = {}
  /\ issued = <<>>
  /\ settledBy = "none"
  /\ status = 0
  /\ data = <<>>
  /\ evaluated = FALSE
  /\ results = <<>>
  /\ verdicts = <<>>
  /\ out = <<>>
  /\ report = NoReport
  /\ exitCode = 0
  /\ manual = NoManual
  /\ cwd \in Cwds
  /\ portTaken \in BOOLEAN
  /\ server = "none"
  /\ serverExit = NotExited
  /\ timer = "none"
  /\ handler = FALSE
  /\ probe = "none"

\* What run-tests.js leaves alone: the state of comprehensive-test.js.
harness == <<tests, idx, passed, total, result, promise, inflight, issued, settledBy,
             status, data, evaluated, results, verdicts, report, manual>>

\* Launch that logs the missing docs directory and goes on.
LaunchWithoutExit ==
  /\ pc = "launch"
  /\ out' = out \o << Line("Starting Future Agent Playwright Tests", 0),
                       Line("Current directory", 0),
                       Line(IF HasDocs(cwd) THEN "docs directory found"
                            ELSE "docs directory not found", 0),
                       Line("Starting development server", 0) >>
  /\ server' = "running"
  /\ pc' = "execSync"
  /\ UNCHANGED <<harness, exitCode, cwd, portTaken, serverExit, timer, handler, probe>>

\* The script from its first line to the call of execSync: without a docs
\* directory in the current directory it logs the error and exits with 1,
\* otherwise the server process is spawned and the script blocks.
Launch ==
  /\ pc = "launch"
  /\ IF HasDocs(cwd)
     THEN /\ out' = out \o << Line("Starting Future Agent Playwright Tests", 0),
                               Line("Current directory", 0),
                               Line("docs directory found", 0),
                               Line("Starting development server", 0) >>
          /\ server' = "running"
          /\ pc' = "execSync"
          /\ UNCHANGED exitCode
     ELSE /\ out' = out \o << Line("Starting Future Agent Playwright Tests", 0),
                               Line("Current directory", 0),
                               Line("docs directory not found", 0) >>
          /\ exitCode' = 1
          /\ pc' = "exited"
          /\ UNCHANGED server
  /\ UNCHANGED <<harness, cwd, portTaken, serverExit, timer, handler, probe>>

\* The server process ends.  With the port taken python cannot bind and
\* leaves with status 1.
ServerExits(o) ==
  /\ server = "running"
  /\ portTaken => o \in {Exited(1), Exited(127)}
  /\ server' = "exited"
  /\ serverExit' = o
  /\ UNCHANGED <<harness, pc, out, exitCode, cwd, portTaken, timer, handler, probe>>

\* execSync ends when the child has ended.  Status 0: it returns, the timer
\* is set and the SIGINT handler registered.  Otherwise it throws, nothing
\* catches, and node exits with 1.
ExecSyncReturns ==
  /\ pc = "execSync"
  /\ server = "exited"
  /\ IF serverExit = Exited(0)
     THEN /\ timer' = "armed"
          /\ handler' = TRUE
          /\ pc' = "waiting"
          /\ UNCHANGED <<out, exitCode>>
     ELSE /\ out' = Append(out, Line("Error: Command failed", 0))
          /\ exitCode' = 1
          /\ pc' = "exited"
          /\ UNCHANGED <<timer, handler>>
  /\ UNCHANGED <<harness, cwd, portTaken, server, serverExit, probe>>

\* The line the timer callback prints for what curl gave.
ProbeLine(o) ==
  IF o = "200" THEN "Server is responding correctly"
  ELSE IF o \in {"refused", "timeout"} THEN "Could not connect to server"
  ELSE "Server returned status code"

\* The callback of setTimeout: the line about the started server, the curl
\* and the line about its outcome.  Nothing is left to wait for afterwards
\* and the process ends with status 0.
TimerFires(o) ==
  /\ pc = "waiting"
  /\ timer = "armed"
  /\ o \in CurlOutcomes
  /\ timer' = "fired"
  /\ probe' = o
  /\ out' = out \o << Line("Development server started", 0), Line(ProbeLine(o), 0) >>
  /\ exitCode' = 0
  /\ pc' = "exited"
  /\ UNCHANGED <<harness, cwd, portTaken, server, serverExit, handler>>

\* SIGINT reaches node.  Blocked in execSync it has no handler yet and is
\* ended by the signal (status 130 to the shell); the child, spawned
\* detached, may or may not get the signal.  With the handler registered
\* the handler logs and exits with 0.
Sigint ==
  \/ /\ pc = "execSync"
     /\ exitCode' = 130
     /\ pc' = "exited"
     /\ \/ UNCHANGED <<server, serverExit>>
        \/ /\ server = "running"
           /\ server' = "exited"
           /\ serverExit' = Exited(0)
     /\ UNCHANGED <<harness, out, cwd, portTaken, timer, handler, probe>>
  \/ /\ pc = "waiting"
     /\ handler
     /\ out' = Append(out, Line("Shutting down development server", 0))
     /\ exitCode' = 0
     /\ pc' = "exited"
     /\ UNCHANGED <<harness, cwd, portTaken, server, serverExit, timer, handler, probe>>

\* Another process starts or stops listening on port 3000; it cannot start
\* while the server holds the port.
PortChanges ==
  /\ pc # "exited"
  /\ server # "running"
  /\ portTaken' = ~portTaken
  /\ UNCHANGED <<harness, pc, out, exitCode, cwd, server, serverExit, timer, handler, probe>>

NextRunTests ==
  \/ Launch
  \/ \E o \in ExitOutcomes : ServerExits(o)
  \/ ExecSyncReturns
  \/ \E o \in {"200", "404", "500", "timeout", "refused"} : TimerFires(o)
  \/ Sigint
  \/ PortChanges

SpecRunTests == InitRunTests /\ [][NextRunTests]_vars

\* The timer callback has printed its first line.
StartedPrinted == \E i \in 1..Len(out) : out[i].text = "Development server started"

\* C22: run-tests.js waits its two seconds, prints "Development server
\* started" and probes the root path while the server it launched is
\* running: after the server was started and before its process has ended.
ProbeWhileServerRuns ==
  (timer # "none" \/ StartedPrinted \/ probe # "none") => server = "running"

\* C28: without a docs directory in the current directory run-tests.js
\* reports the error and exits with status 1: the server is not started,
\* no timer is set and nothing is probed.
MissingDocsExitsBeforeServer ==
  (~HasDocs(cwd) /\ pc # "launch") =>
    /\ pc = "exited"
    /\ exitCode = 1
    /\ out[Len(out)].text = "docs directory not found"
    /\ \A i \in 1..Len(out) : out[i].text # "Starting development server"
    /\ ~StartedPrinted
    /\ server = "none"
    /\ serverExit = NotExited
    /\ timer = "none"
    /\ ~handler
    /\ probe = "none"

\* The launcher was started in a directory without docs and has exited
\* with 1, while another process is listening on port 3000.
MissingDocsExitsBeforeServerWitness ==
  /\ cwd = "/repo/docs"
  /\ portTaken
  /\ pc = "exited"
  /\ exitCode = 1
  /\ Len(out) = 3

====
